---------------------------- MODULE Spec2Model ----------------------------
(***************************************************************************)
(* The data-cleaning pipeline (convert_columns, impute_missing,            *)
(* remove_outliers, fix_skew) and the business aggregates                  *)
(* (weekend_sales_analysis, regional_revenue_analysis) of the online       *)
(* shopping EDA toolkit, over one pandas DataFrame.                        *)
(*                                                                         *)
(* A DataFrame is a record                                                 *)
(*   index   : the row labels, in row order                                *)
(*   columns : the column names, in column order                           *)
(*   data    : column name -> sequence of cells (one per row)              *)
(*   dtype   : column name -> "object" | "int64" | "float64" | "bool"      *)
(*                            | "category"                                 *)
(*   cats    : column name -> the declared categories, in their order      *)
(*             (<<>> when the column is not categorical)                   *)
(* A cell is <<>> (missing, NaN), <<v>> for a string or a boolean,         *)
(* <<n, d>> for the number n/d in lowest terms with d > 0, or              *)
(* <<n, d, "log1p">> for the number log(1 + n/d).  Arithmetic is exact     *)
(* (rational); float64 rounding is not modelled.                           *)
(***************************************************************************)
EXTENDS Integers, Sequences, FiniteSets, TLC

VARIABLES
    df,      \* the DataFrame the caller holds
    prev,    \* the DataFrame as it was when the last call began
    call,    \* the last call: [op, arg, outcome, exc]
    out,     \* what the last aggregate query returned: a sequence of <<key, value>>
    steps    \* number of calls made so far

vars == <<df, prev, call, out, steps>>

-----------------------------------------------------------------------------
(* Bounds of the model *)

\* rows of the data sets of the outlier specification
MaxRows == 5
\* rows of the data sets of the impute and skew specifications
MaxStatRows == 4
\* rows of the data sets of the other specifications
MaxSmallRows == 3
\* largest raw integer in the numeric column of the impute / skew specifications
MaxVal == 2
\* calls made in one behaviour (the pipeline runs its four stages once)
MaxSteps == 2

-----------------------------------------------------------------------------
(* Exact rational arithmetic on cells *)

NaN == <<>>

Abs(x) == IF x < 0 THEN -x ELSE x

RECURSIVE Gcd(_, _)
Gcd(a, b) == IF b = 0 THEN Abs(a) ELSE Gcd(b, a % b)

Lcm(a, b) == (a * b) \div Gcd(a, b)

\* the number n/d as a cell
Rat(n, d) ==
    LET g == Gcd(n, d)
        s == IF d < 0 THEN -1 ELSE 1
    IN  <<(s * n) \div g, (s * d) \div g>>

Range(s) == {s[i] : i \in DOMAIN s}

RECURSIVE SumSeq(_)
SumSeq(s) == IF s = <<>> THEN 0 ELSE s[Len(s)] + SumSeq(SubSeq(s, 1, Len(s) - 1))

RECURSIVE LcmSeq(_)
LcmSeq(s) == IF s = <<>> THEN 1 ELSE Lcm(s[Len(s)], LcmSeq(SubSeq(s, 1, Len(s) - 1)))

IsNA(c) == c = NaN

\* the non-missing cells of a column, in row order (skipna=True)
DropNA(col) == SelectSeq(col, LAMBDA c : ~IsNA(c))

\* common denominator of a sequence of number cells, and the numerators over it
CommonDen(cells) == LcmSeq([i \in DOMAIN cells |-> cells[i][2]])

Numer(c, D) == c[1] * (D \div c[2])

Numers(cells) == [i \in DOMAIN cells |-> Numer(cells[i], CommonDen(cells))]

\* the k-th smallest (1-based) entry of a sequence of integers
Kth(s, k) ==
    CHOOSE v \in Range(s) :
        /\ Cardinality({i \in DOMAIN s : s[i] < v}) < k
        /\ Cardinality({i \in DOMAIN s : s[i] <= v}) >= k

\* the rows of s at the positions K, in their original order
RECURSIVE TakeRows(_, _)
TakeRows(s, K) ==
    IF s = <<>> THEN <<>>
    ELSE LET r == TakeRows(SubSeq(s, 1, Len(s) - 1), K)
         IN  IF Len(s) \in K THEN Append(r, s[Len(s)]) ELSE r


RatAdd(a, b) == IF IsNA(a) \/ IsNA(b) THEN NaN ELSE Rat(a[1] * b[2] + b[1] * a[2], a[2] * b[2])

RatSub(a, b) == IF IsNA(a) \/ IsNA(b) THEN NaN ELSE Rat(a[1] * b[2] - b[1] * a[2], a[2] * b[2])

RatMul(a, b) == IF IsNA(a) \/ IsNA(b) THEN NaN ELSE Rat(a[1] * b[1], a[2] * b[2])

\* a < b on numbers; every comparison with NaN is False
RatLess(a, b) == ~IsNA(a) /\ ~IsNA(b) /\ a[1] * b[2] < b[1] * a[2]

-----------------------------------------------------------------------------
(* pandas reductions used by the pipeline (skipna=True throughout) *)

\* Series.median(): NaN for an all-missing column
Median(col) ==
    LET vs == DropNA(col)
        n  == Len(vs)
        xs == Numers(vs)
        D  == CommonDen(vs)
    IN  IF n = 0 THEN NaN
        ELSE IF n % 2 = 1 THEN Rat(Kth(xs, (n + 1) \div 2), D)
        ELSE Rat(Kth(xs, n \div 2) + Kth(xs, n \div 2 + 1), 2 * D)

\* Series.mean(): NaN for an all-missing column
Mean(col) ==
    LET vs == DropNA(col)
        n  == Len(vs)
    IN  IF n = 0 THEN NaN ELSE Rat(SumSeq(Numers(vs)), n * CommonDen(vs))

\* Series.sum(): 0 for an all-missing column
Sum(col) ==
    LET vs == DropNA(col)
    IN  Rat(SumSeq(Numers(vs)), CommonDen(vs))

\* linear interpolation between the order statistics i + 1 and i + 2 (1-based)
\* of the n integers xs over the denominator D, r / q[2] of the way
Interpolate(xs, D, q, i, r) ==
    Rat(q[2] * Kth(xs, i + 1)
          + r * (Kth(xs, IF i + 2 <= Len(xs) THEN i + 2 ELSE Len(xs)) - Kth(xs, i + 1)),
        q[2] * D)

QuantileOfValues(xs, D, q) ==
    IF Len(xs) = 0 THEN NaN
    ELSE Interpolate(xs, D, q, ((Len(xs) - 1) * q[1]) \div q[2], ((Len(xs) - 1) * q[1]) % q[2])

\* Series.quantile(q), q = <<qn, qd>>, linear interpolation between the order
\* statistics around position (n - 1) * q of the n non-missing values; NaN for
\* an all-missing column
Quantile(col, q) == QuantileOfValues(Numers(DropNA(col)), CommonDen(DropNA(col)), q)

\* Series.fillna(value): fillna(NaN) changes nothing
FillNA(col, value) == [i \in DOMAIN col |-> IF IsNA(col[i]) THEN value ELSE col[i]]

-----------------------------------------------------------------------------
(* DataFrame helpers *)

HasColumn(d, c) == c \in Range(d.columns)

NRows(d) == Len(d.index)

NumberDtypes == {"int64", "float64"}

\* df.select_dtypes(include=['number']).columns: bool and category are not numbers
select_dtypes_number(d) == SelectSeq(d.columns, LAMBDA c : d.dtype[c] \in NumberDtypes)

\* df[mask]: the rows at the positions K, every column filtered alike
FilterRows(d, K) ==
    [d EXCEPT !.index = TakeRows(d.index, K),
              !.data  = [c \in DOMAIN d.data |-> TakeRows(d.data[c], K)]]

\* df[col] = values (an existing column is replaced in place)
SetColumn(d, c, values, dt, categories) ==
    [d EXCEPT !.data[c] = values, !.dtype[c] = dt, !.cats[c] = categories]

-----------------------------------------------------------------------------
(* DataTransform.convert_columns *)

Months == <<"Jan", "Feb", "Mar", "Apr", "May", "Jun",
            "Jul", "Aug", "Sep", "Oct", "Nov", "Dec">>

\* pd.Categorical(values, categories=..., ordered=True): a value that is not one
\* of the categories becomes NaN; nothing is raised
Categorical(values, categories) ==
    [i \in DOMAIN values |->
        IF IsNA(values[i]) \/ values[i][1] \notin Range(categories) THEN NaN ELSE values[i]]

\* Series.astype(bool): a nonzero number is True, zero is False, NaN is True;
\* a bool column is returned as it is
AsTypeBool(values, dt) ==
    [i \in DOMAIN values |->
        IF dt = "bool" THEN values[i]
        ELSE IF IsNA(values[i]) THEN <<TRUE>>
        ELSE <<values[i][1] # 0>>]

\* ConvertMonth that also drops the rows whose month is not one of the
\* categories (a dropna on the converted column)
ConvertMonthDropInvalid(d) ==
    FilterRows(SetColumn(d, "month", Categorical(d.data["month"], Months), "category", Months),
               {i \in 1..NRows(d) :
                   ~IsNA(d.data["month"][i]) /\ d.data["month"][i][1] \in Range(Months)})

\* df['month'] = pd.Categorical(df['month'], categories=[...], ordered=True)
ConvertMonth(d) ==
    SetColumn(d, "month", Categorical(d.data["month"], Months), "category", Months)

\* ConvertWeekend making the column a categorical over False, True (as month
\* is made one) instead of a bool column
ConvertWeekendCategorical(d) ==
    SetColumn(d, "weekend", AsTypeBool(d.data["weekend"], d.dtype["weekend"]),
              "category", <<FALSE, TRUE>>)

\* df['weekend'] = df['weekend'].astype(bool)
ConvertWeekend(d) ==
    SetColumn(d, "weekend", AsTypeBool(d.data["weekend"], d.dtype["weekend"]), "bool", <<>>)

\* df['revenue'] = df['revenue'].astype(bool)
ConvertRevenue(d) ==
    SetColumn(d, "revenue", AsTypeBool(d.data["revenue"], d.dtype["revenue"]), "bool", <<>>)

\* The three assignments run one after the other on the caller's DataFrame; a
\* column that is absent raises KeyError at its own statement, after the earlier
\* statements have been carried out.
ConvertColumns(d) ==
    IF ~HasColumn(d, "month") THEN [df |-> d, exc |-> "KeyError"]
    ELSE IF ~HasColumn(d, "weekend") THEN [df |-> ConvertMonth(d), exc |-> "KeyError"]
    ELSE IF ~HasColumn(d, "revenue")
         THEN [df |-> ConvertWeekend(ConvertMonth(d)), exc |-> "KeyError"]
    ELSE [df |-> ConvertRevenue(ConvertWeekend(ConvertMonth(d))), exc |-> ""]

-----------------------------------------------------------------------------
(* DataFrameTransform.impute_missing *)

\* ImputeColumn with the 'mean' branch filling with the median as well
ImputeColumnMedianOnly(d, col, strategy) ==
    IF strategy \in {"median", "mean"}
    THEN [d EXCEPT !.data[col] = FillNA(d.data[col], Median(d.data[col]))]
    ELSE d

\* one pass of the loop body: the chained df[col].fillna(..., inplace=True)
\* writes through to the frame's column; any other strategy matches neither
\* branch and the column is left alone
ImputeColumn(d, col, strategy) ==
    IF strategy = "median"
    THEN [d EXCEPT !.data[col] = FillNA(d.data[col], Median(d.data[col]))]
    ELSE IF strategy = "mean"
    THEN [d EXCEPT !.data[col] = FillNA(d.data[col], Mean(d.data[col]))]
    ELSE d

RECURSIVE ImputeLoop(_, _, _)
ImputeLoop(d, cols, strategy) ==
    IF cols = <<>> THEN d
    ELSE ImputeLoop(ImputeColumn(d, Head(cols), strategy), Tail(cols), strategy)

ImputeMissing(d, strategy) == ImputeLoop(d, select_dtypes_number(d), strategy)

-----------------------------------------------------------------------------
(* OutlierHandler.remove_outliers *)

OnePointFive == <<3, 2>>

\* IQRMask with <= and >= for < and >: a value on a bound is dropped too
IQRMaskNonStrict(cells, Q1, Q3, IQR) ==
    {i \in DOMAIN cells :
        ~(   RatLess(cells[i], RatSub(Q1, RatMul(OnePointFive, IQR)))
          \/ cells[i] = RatSub(Q1, RatMul(OnePointFive, IQR))
          \/ RatLess(RatAdd(Q3, RatMul(OnePointFive, IQR)), cells[i])
          \/ cells[i] = RatAdd(Q3, RatMul(OnePointFive, IQR)))}

\* ~((df[col] < (Q1 - 1.5 * IQR)) | (df[col] > (Q3 + 1.5 * IQR))): the positions
\* of the rows that stay
IQRMask(cells, Q1, Q3, IQR) ==
    {i \in DOMAIN cells :
        ~(   RatLess(cells[i], RatSub(Q1, RatMul(OnePointFive, IQR)))
          \/ RatLess(RatAdd(Q3, RatMul(OnePointFive, IQR)), cells[i]))}

\* IQR = Q3 - Q1
QuartileMask(cells, Q1, Q3) == IQRMask(cells, Q1, Q3, RatSub(Q3, Q1))

\* one pass of the loop body: Q1, Q3 over the column as it is now
OutlierMask(d, col) ==
    QuartileMask(d.data[col], Quantile(d.data[col], <<1, 4>>), Quantile(d.data[col], <<3, 4>>))

RemoveOutliersColumn(d, col) == FilterRows(d, OutlierMask(d, col))

\* RemoveOutliers with every column's bounds taken over the rows of the input
\* (one simultaneous mask) instead of over the rows still remaining
RemoveOutliersSimultaneous(d, columns) ==
    FilterRows(d, {i \in 1..NRows(d) :
                      \A k \in DOMAIN columns : i \in OutlierMask(d, columns[k])})

\* for col in columns: ... df = df[~(...)]; return df
RECURSIVE RemoveOutliers(_, _)
RemoveOutliers(d, columns) ==
    IF columns = <<>> THEN d
    ELSE RemoveOutliers(RemoveOutliersColumn(d, Head(columns)), Tail(columns))

-----------------------------------------------------------------------------
(* DataSkewTransformer.fix_skew *)

\* Natural numbers of any size, as sequences of base-1000 digits, lowest first
\* (the moments of the skewness test do not fit a machine integer)
RECURSIVE BigMulCarry(_, _, _)
BigMulCarry(digits, k, carry) ==
    IF digits = <<>>
    THEN IF carry = 0 THEN <<>>
         ELSE <<carry % 1000>> \o BigMulCarry(<<>>, k, carry \div 1000)
    ELSE LET t == Head(digits) * k + carry
         IN  <<t % 1000>> \o BigMulCarry(Tail(digits), k, t \div 1000)

RECURSIVE BigProduct(_)
BigProduct(factors) ==
    IF factors = <<>> THEN <<1>>
    ELSE IF Head(factors) = 0 THEN <<>>
    ELSE BigMulCarry(BigProduct(Tail(factors)), Head(factors), 0)

BigLess(a, b) ==
    \/ Len(a) < Len(b)
    \/ /\ Len(a) = Len(b)
       /\ \E i \in DOMAIN a :
            /\ a[i] < b[i]
            /\ \A j \in DOMAIN a : j > i => a[j] = b[j]

\* Series.skew() is the bias-corrected sample skewness over the n non-missing
\* values, n * sqrt(n - 1) / (n - 2) * S3 / S2^1.5 with S2, S3 the sums of the
\* squared and cubed deviations from the mean; it is NaN for n < 3 and 0 when
\* S2 = 0.  With dev_i = n * x_i - sum(x), M2 = sum(dev_i^2) and
\* M3 = sum(dev_i^3), the test |skew| > p/q is, squared,
\*     q^2 * n^2 * (n - 1) * M3^2  >  p^2 * (n - 2)^2 * M2^3.

\* SkewTest with >= for >: a column whose |skewness| equals the threshold counts
\* as skewed
SkewTestOrEquals(n, M2, M3, p, q) ==
    IF n < 3 THEN FALSE
    ELSE IF M2 = 0 THEN p <= 0
    ELSE IF p < 0 THEN TRUE
    ELSE ~BigLess(BigProduct(<<q, q, n, n, n - 1, Abs(M3), Abs(M3)>>),
                  BigProduct(<<p, p, n - 2, n - 2, M2, M2, M2>>))

\* abs(skewness) > threshold, threshold = p/q with q > 0; a NaN skewness
\* compares False
SkewTest(n, M2, M3, p, q) ==
    IF n < 3 THEN FALSE
    ELSE IF M2 = 0 THEN p < 0
    ELSE IF p < 0 THEN TRUE
    ELSE BigLess(BigProduct(<<p, p, n - 2, n - 2, M2, M2, M2>>),
                 BigProduct(<<q, q, n, n, n - 1, Abs(M3), Abs(M3)>>))

SkewOfDeviations(n, dev, threshold) ==
    SkewTest(n, SumSeq([i \in DOMAIN dev |-> dev[i] * dev[i]]),
                SumSeq([i \in DOMAIN dev |-> dev[i] * dev[i] * dev[i]]),
             threshold[1], threshold[2])

SkewOfValues(n, xs, total, threshold) ==
    SkewOfDeviations(n, [i \in DOMAIN xs |-> n * xs[i] - total], threshold)

\* abs(df[col].skew()) > threshold
SkewExceeds(col, threshold) ==
    SkewOfValues(Len(DropNA(col)), Numers(DropNA(col)), SumSeq(Numers(DropNA(col))), threshold)

\* np.log1p on one cell: log1p(NaN) = NaN, log1p(0) = 0
Log1p(c) ==
    IF IsNA(c) THEN NaN
    ELSE IF c[1] = 0 THEN c
    ELSE <<c[1], c[2], "log1p">>

\* one pass of the loop body
FixSkewColumn(d, col, threshold) ==
    IF SkewExceeds(d.data[col], threshold)
    THEN [d EXCEPT !.data[col]  = [i \in DOMAIN d.data[col] |-> Log1p(d.data[col][i])],
                   !.dtype[col] = "float64"]
    ELSE d

RECURSIVE FixSkewLoop(_, _, _)
FixSkewLoop(d, cols, threshold) ==
    IF cols = <<>> THEN d
    ELSE FixSkewLoop(FixSkewColumn(d, Head(cols), threshold), Tail(cols), threshold)

FixSkew(d, threshold) == FixSkewLoop(d, select_dtypes_number(d), threshold)

\* no numeric cell holds a logarithm (the exact arithmetic above covers
\* rational cells only)
NoLogged(d) ==
    \A c \in Range(d.columns) : \A i \in DOMAIN d.data[c] : Len(d.data[c][i]) <= 2

-----------------------------------------------------------------------------
(* BusinessAnalysis: groupby and the two aggregates *)

\* string keys sort lexicographically; the region names of the model, sorted
Regions == <<"A", "B", "C">>

IndexOf(seq, v) == CHOOSE i \in DOMAIN seq : seq[i] = v

\* the order groupby(sort=True) puts two keys of column `by` in
KeyLess(d, by, a, b) ==
    IF d.dtype[by] = "category" THEN IndexOf(d.cats[by], a[1]) < IndexOf(d.cats[by], b[1])
    ELSE IF d.dtype[by] = "bool" THEN a[1] = FALSE /\ b[1] = TRUE
    ELSE IF d.dtype[by] \in NumberDtypes THEN RatLess(a, b)
    ELSE IndexOf(Regions, a[1]) < IndexOf(Regions, b[1])

\* the group keys of df.groupby(by, observed=observed): the values present in
\* the column (NaN is dropped); only for a categorical column with
\* observed=False, every declared category
GroupKeys(d, by, observed) ==
    IF d.dtype[by] = "category" /\ ~observed
    THEN {<<d.cats[by][k]>> : k \in DOMAIN d.cats[by]}
    ELSE {d.data[by][i] : i \in {j \in 1..NRows(d) : ~IsNA(d.data[by][j])}}

\* the keys in group order
SortedKeys(d, by, observed) ==
    LET S == GroupKeys(d, by, observed)
    IN  CHOOSE s \in [1..Cardinality(S) -> S] :
            /\ Range(s) = S
            /\ \A i, j \in DOMAIN s : i < j => KeyLess(d, by, s[i], s[j])

\* a cell as the number a reduction sees: True is 1, False is 0
AsNumber(c, dt) ==
    IF dt = "bool" /\ ~IsNA(c) THEN (IF c[1] THEN <<1, 1>> ELSE <<0, 1>>) ELSE c

\* the cells of column col in the rows of group `key`
GroupValues(d, by, key, col) ==
    LET nums == [i \in 1..NRows(d) |-> AsNumber(d.data[col][i], d.dtype[col])]
    IN  TakeRows(nums, {i \in 1..NRows(d) : d.data[by][i] = key})

\* df.groupby('weekend', observed=False)['revenue'].mean()
WeekendSalesAnalysis(d) ==
    LET keys == SortedKeys(d, "weekend", FALSE)
    IN  [i \in DOMAIN keys |-> <<keys[i], Mean(GroupValues(d, "weekend", keys[i], "revenue"))>>]

\* df.groupby('region')['revenue'].sum()
RegionalRevenue(d) ==
    LET keys == SortedKeys(d, "region", TRUE)
    IN  [i \in DOMAIN keys |-> <<keys[i], Sum(GroupValues(d, "region", keys[i], "revenue"))>>]

\* Series.sort_values(ascending=False) with the default kind='quicksort', which
\* is not a stable sort: every arrangement in non-increasing order of value is
\* a possible result
SortValuesDescending(s) ==
    {t \in [DOMAIN s -> Range(s)] :
        /\ \E p \in [DOMAIN s -> DOMAIN s] :
              /\ \A i, j \in DOMAIN s : i # j => p[i] # p[j]
              /\ \A i \in DOMAIN s : t[i] = s[p[i]]
        /\ \A i, j \in DOMAIN s : i < j => ~RatLess(t[i][2], t[j][2])}

\* df.groupby('region')['revenue'].sum().sort_values(ascending=False)
RegionalRevenueAnalysis(d) == SortValuesDescending(RegionalRevenue(d))

-----------------------------------------------------------------------------
(* The calls *)

Call(op, strategy, columns, threshold, exc) ==
    [op |-> op, strategy |-> strategy, columns |-> columns, threshold |-> threshold,
     outcome |-> IF exc = "" THEN "returned" ELSE "raised", exc |-> exc]

\* df = DataTransform.convert_columns(df): mutates the caller's frame in place
convert_columns ==
    LET r == ConvertColumns(df)
    IN  /\ df' = r.df
        /\ prev' = df
        /\ call' = Call("convert_columns", "", <<>>, <<0, 1>>, r.exc)
        /\ out' = <<>>
        /\ steps' = steps + 1

\* df = DataFrameTransform.impute_missing(df, strategy)
impute_missing(strategy) ==
    /\ NoLogged(df)
    /\ df' = ImputeMissing(df, strategy)
    /\ prev' = df
    /\ call' = Call("impute_missing", strategy, <<>>, <<0, 1>>, "")
    /\ out' = <<>>
    /\ steps' = steps + 1

\* df = OutlierHandler.remove_outliers(df, columns): df[col] raises KeyError
\* for an absent column; the caller's frame is only rebound on return
remove_outliers(columns) ==
    /\ NoLogged(df)
    /\ IF \A i \in DOMAIN columns : HasColumn(df, columns[i])
       THEN /\ df' = RemoveOutliers(df, columns)
            /\ call' = Call("remove_outliers", "", columns, <<0, 1>>, "")
       ELSE /\ df' = df
            /\ call' = Call("remove_outliers", "", columns, <<0, 1>>, "KeyError")
    /\ prev' = df
    /\ out' = <<>>
    /\ steps' = steps + 1

\* df = DataSkewTransformer.fix_skew(df, threshold)
fix_skew(threshold) ==
    /\ NoLogged(df)
    /\ df' = FixSkew(df, threshold)
    /\ prev' = df
    /\ call' = Call("fix_skew", "", <<>>, threshold, "")
    /\ out' = <<>>
    /\ steps' = steps + 1

\* BusinessAnalysis.weekend_sales_analysis(df)
weekend_sales_analysis ==
    /\ NoLogged(df)
    /\ IF HasColumn(df, "weekend") /\ HasColumn(df, "revenue")
       THEN /\ out' = WeekendSalesAnalysis(df)
            /\ call' = Call("weekend_sales_analysis", "", <<>>, <<0, 1>>, "")
       ELSE /\ out' = <<>>
            /\ call' = Call("weekend_sales_analysis", "", <<>>, <<0, 1>>, "KeyError")
    /\ prev' = df
    /\ steps' = steps + 1
    /\ UNCHANGED df

\* BusinessAnalysis.regional_revenue_analysis(df)
regional_revenue_analysis ==
    /\ NoLogged(df)
    /\ IF HasColumn(df, "region") /\ HasColumn(df, "revenue")
       THEN /\ out' \in RegionalRevenueAnalysis(df)
            /\ call' = Call("regional_revenue_analysis", "", <<>>, <<0, 1>>, "")
       ELSE /\ out' = <<>>
            /\ call' = Call("regional_revenue_analysis", "", <<>>, <<0, 1>>, "KeyError")
    /\ prev' = df
    /\ steps' = steps + 1
    /\ UNCHANGED df

-----------------------------------------------------------------------------
(* The data sets a behaviour starts from *)

AllColumns == <<"month", "weekend", "revenue", "region", "bounce_rates", "exit_rates">>

\* a weekend / revenue flag as loaded: a bool column, or an int64 column of 0 / 1
FlagCell(b, dt) == IF dt = "bool" THEN <<b>> ELSE IF b THEN <<1, 1>> ELSE <<0, 1>>

\* the frame as loaded (pd.read_sql_table / pd.read_csv): a RangeIndex, the
\* strings as object columns, the measurements as float64 columns
LoadedFrame(columns, month, weekend, revenue, region, bounce, exit, flagDtype) ==
    [index   |-> [i \in DOMAIN bounce |-> i - 1],
     columns |-> columns,
     data    |-> [c \in Range(columns) |->
                    CASE c = "month"        -> [i \in DOMAIN month |-> <<month[i]>>]
                      [] c = "weekend"      -> [i \in DOMAIN weekend |-> FlagCell(weekend[i], flagDtype)]
                      [] c = "revenue"      -> [i \in DOMAIN revenue |-> FlagCell(revenue[i], flagDtype)]
                      [] c = "region"       -> [i \in DOMAIN region |-> <<region[i]>>]
                      [] c = "bounce_rates" -> bounce
                      [] c = "exit_rates"   -> exit],
     dtype   |-> [c \in Range(columns) |->
                    CASE c \in {"month", "region"}    -> "object"
                      [] c \in {"weekend", "revenue"} -> flagDtype
                      [] OTHER                        -> "float64"],
     cats    |-> [c \in Range(columns) |-> <<>>]]

\* the columns a specification does not vary
DefaultMonth(n)   == [i \in 1..n |-> "Feb"]
DefaultWeekend(n) == [i \in 1..n |-> i % 2 = 0]
DefaultRevenue(n) == [i \in 1..n |-> i = 1]
DefaultRegion(n)  == [i \in 1..n |-> "A"]
DefaultExit(n)    == [i \in 1..n |-> <<i, 1>>]
DefaultBounce(n)  == [i \in 1..n |-> <<0, 1>>]

FlagDtypes == {"bool", "int64"}

Loaded == [op |-> "load", strategy |-> "", columns |-> <<>>, threshold |-> <<0, 1>>,
           outcome |-> "returned", exc |-> ""]

Start(d) ==
    /\ df = d
    /\ prev = d
    /\ call = Loaded
    /\ out = <<>>
    /\ steps = 0

\* numbers 0..MaxVal and NaN
SmallCells == {NaN} \cup {<<v, 1>> : v \in 0..MaxVal}

-----------------------------------------------------------------------------
(* Outlier removal on two measurement columns *)

\* either one measurement takes the values NaN, 0, 1, 3 and the other is the
\* ramp 1, 2, ..., n, or both measurements take the values 0, 1
OutlierBounce == {NaN, <<0, 1>>, <<1, 1>>, <<3, 1>>}
OutlierPair   == {<<0, 1>>, <<1, 1>>}

ColumnLists == {<<>>, <<"bounce_rates">>, <<"exit_rates">>,
                <<"bounce_rates", "exit_rates">>, <<"exit_rates", "bounce_rates">>}

OutlierFrame(n, b, e) ==
    LoadedFrame(AllColumns, DefaultMonth(n), DefaultWeekend(n), DefaultRevenue(n),
                DefaultRegion(n), b, e, "bool")

InitOutlier ==
    \E n \in 0..MaxRows :
        \/ \E b \in [1..n -> OutlierBounce] : Start(OutlierFrame(n, b, DefaultExit(n)))
        \/ \E b \in [1..n -> OutlierPair], e \in [1..n -> OutlierPair] :
              Start(OutlierFrame(n, b, e))

\* one call with any column list, then further passes with the same list
NextOutlier ==
    \E columns \in ColumnLists :
        /\ steps = 0 \/ (steps < MaxSteps /\ columns = call.columns)
        /\ remove_outliers(columns)

SpecOutlier == InitOutlier /\ [][NextOutlier]_vars

-----------------------------------------------------------------------------
(* Vocabulary of the outlier properties *)

Returned(op) == call.op = op /\ call.outcome = "returned"

LowBound(Q1, Q3) == RatSub(Q1, RatMul(<<3, 2>>, RatSub(Q3, Q1)))

HighBound(Q1, Q3) == RatAdd(Q3, RatMul(<<3, 2>>, RatSub(Q3, Q1)))

OutsideBounds(x, low, high) == RatLess(x, low) \/ RatLess(high, x)

OutsideQuartiles(x, Q1, Q3) == OutsideBounds(x, LowBound(Q1, Q3), HighBound(Q1, Q3))

\* the value x lies strictly outside [Q1 - 1.5 IQR, Q3 + 1.5 IQR] of the cells
StrictlyOutside(x, cells) ==
    OutsideQuartiles(x, Quantile(cells, <<1, 4>>), Quantile(cells, <<3, 4>>))

\* a value equals one of the two bounds of the cells
OnABound(x, cells) ==
    \/ x = LowBound(Quantile(cells, <<1, 4>>), Quantile(cells, <<3, 4>>))
    \/ x = HighBound(Quantile(cells, <<1, 4>>), Quantile(cells, <<3, 4>>))

PosOf(d, label) == CHOOSE j \in 1..NRows(d) : d.index[j] = label

CellOf(d, c, label) == d.data[c][PosOf(d, label)]

\* the cells of column c of frame d in the rows labelled L, in row order
CellsAt(d, c, L) == TakeRows(d.data[c], {j \in 1..NRows(d) : d.index[j] \in L})

\* the labels of L whose value in column c is not strictly outside the bounds
WithinQuartiles(d, c, L, Q1, Q3) ==
    {l \in L : ~OutsideQuartiles(CellOf(d, c, l), Q1, Q3)}

\* the labels that survive the columns, one column after the other, each judged
\* against the bounds over the labels that survived the columns before it
RECURSIVE Survivors(_, _, _)
Survivors(d, columns, L) ==
    IF columns = <<>> THEN L
    ELSE Survivors(d, Tail(columns),
            WithinQuartiles(d, Head(columns), L,
                            Quantile(CellsAt(d, Head(columns), L), <<1, 4>>),
                            Quantile(CellsAt(d, Head(columns), L), <<3, 4>>)))

NoneOutside(cells, Q1, Q3) == \A i \in DOMAIN cells : ~OutsideQuartiles(cells[i], Q1, Q3)

\* no value of the column lies strictly outside the column's own bounds
AllWithinOwnBounds(cells) ==
    NoneOutside(cells, Quantile(cells, <<1, 4>>), Quantile(cells, <<3, 4>>))

\* frame a consists of rows of frame b, in b's order, every cell as in b, and
\* has b's columns with their types
SubFrame(a, b) ==
    /\ a.columns = b.columns /\ a.dtype = b.dtype /\ a.cats = b.cats
    /\ \A i \in 1..NRows(a) : \E j \in 1..NRows(b) : b.index[j] = a.index[i]
    /\ \A i, k \in 1..NRows(a) : i < k => PosOf(b, a.index[i]) < PosOf(b, a.index[k])
    /\ \A c \in Range(a.columns) : \A i \in 1..NRows(a) :
          a.data[c][i] = CellOf(b, c, a.index[i])

\* C1 (as stated): a second pass of remove_outliers with the same column list
\* removes no further row.
C1_SecondPassRemovesNothing ==
    (Returned("remove_outliers") /\ steps = 2) => df = prev

\* C1 (amended): a second pass of remove_outliers with the same column list
\* never adds a row, and it removes no row exactly when no listed column of the
\* first pass's result has a value strictly outside the bounds recomputed over
\* that result; otherwise it removes further rows.
C1_SecondPassFixedPointIff ==
    (Returned("remove_outliers") /\ steps = 2) =>
        /\ SubFrame(df, prev)
        /\ (df = prev) <=>
              \A k \in DOMAIN call.columns : AllWithinOwnBounds(prev.data[call.columns[k]])

\* the second pass removed a row the first pass had kept
C1_Witness ==
    Returned("remove_outliers") /\ steps = 2 /\ NRows(df) < NRows(prev)

\* C8: remove_outliers takes the columns in list order and, for each, drops
\* exactly the remaining rows whose value is strictly outside the IQR bounds
\* over the remaining rows (a value on a bound stays); the result consists of
\* input rows in their order with the same columns, is never longer, and is the
\* input itself for an empty column list.
C8_SequentialStrictBounds ==
    Returned("remove_outliers") =>
        /\ SubFrame(df, prev)
        /\ NRows(df) <= NRows(prev)
        /\ Range(df.index) = Survivors(prev, call.columns, Range(prev.index))
        /\ call.columns = <<>> => df = prev

\* a two-column call dropped a row and kept a row whose value is on a bound
C8_Witness ==
    /\ Returned("remove_outliers") /\ Len(call.columns) = 2
    /\ NRows(df) < NRows(prev)
    /\ \E i \in 1..NRows(df) :
          OnABound(df.data[call.columns[2]][i],
                   CellsAt(prev, call.columns[2],
                           Survivors(prev, <<call.columns[1]>>, Range(prev.index))))

\* the data set of the order-dependence example: (bounce_rates, exit_rates) =
\* (0,0), (0,0), (0,1), (1,0)
OrderExample ==
    LoadedFrame(AllColumns, DefaultMonth(4), DefaultWeekend(4), DefaultRevenue(4),
                DefaultRegion(4),
                <<(<<0, 1>>), (<<0, 1>>), (<<0, 1>>), (<<1, 1>>)>>,
                <<(<<0, 1>>), (<<0, 1>>), (<<1, 1>>), (<<0, 1>>)>>, "bool")

\* C9: remove_outliers is order-dependent: on the example data set the column
\* list [bounce_rates, exit_rates] keeps rows 0, 1, 2 and the list
\* [exit_rates, bounce_rates] keeps rows 0, 1, 3.
C9_OrderDependent ==
    (Returned("remove_outliers") /\ steps = 1 /\ prev = OrderExample) =>
        /\ call.columns = <<"bounce_rates", "exit_rates">> => df.index = <<0, 1, 2>>
        /\ call.columns = <<"exit_rates", "bounce_rates">> => df.index = <<0, 1, 3>>

\* a call with [bounce_rates, exit_rates] whose result differs from what the
\* list [exit_rates, bounce_rates] gives on the same data set
C9_Witness ==
    /\ Returned("remove_outliers") /\ steps = 1
    /\ call.columns = <<"bounce_rates", "exit_rates">>
    /\ df.index # RemoveOutliers(prev, <<"exit_rates", "bounce_rates">>).index

-----------------------------------------------------------------------------
(* Imputation and skew correction on one varying measurement column *)

\* the other measurement: one missing entry, then 1, 2, ...
StatExit(n) == [i \in 1..n |-> IF i = 1 THEN NaN ELSE <<i - 1, 1>>]

StatFrame(n, b, flagDtype) ==
    LoadedFrame(AllColumns, DefaultMonth(n), DefaultWeekend(n), DefaultRevenue(n),
                DefaultRegion(n), b, StatExit(n), flagDtype)

Strategies == {"median", "mean", "mode"}

Thresholds == {<<0, 1>>, <<1, 2>>, <<2, 1>>}

InitImpute ==
    \E n \in 0..MaxStatRows : \E b \in [1..n -> SmallCells] : Start(StatFrame(n, b, "bool"))

NextImpute ==
    \E strategy \in Strategies : steps < MaxSteps /\ impute_missing(strategy)

SpecImpute == InitImpute /\ [][NextImpute]_vars

InitSkew ==
    \E n \in 0..MaxStatRows : \E b \in [1..n -> SmallCells] : \E dt \in FlagDtypes :
        Start(StatFrame(n, b, dt))

\* the frame as loaded or after convert_columns, then fix_skew once
NextSkew ==
    \/ steps = 0 /\ convert_columns
    \/ \E threshold \in Thresholds : call.op # "fix_skew" /\ fix_skew(threshold)

SpecSkew == InitSkew /\ [][NextSkew]_vars

-----------------------------------------------------------------------------
(* Vocabulary of the imputation and skew properties *)

IsNumeric(d, c) == d.dtype[c] \in {"int64", "float64"}

\* the arrangements of the cells in non-decreasing order
Ascending(vs) ==
    {t \in [DOMAIN vs -> Range(vs)] :
        /\ \A v \in Range(vs) :
              Cardinality({i \in DOMAIN vs : t[i] = v}) = Cardinality({i \in DOMAIN vs : vs[i] = v})
        /\ \A i, j \in DOMAIN vs : i < j => ~RatLess(t[j], t[i])}

RECURSIVE RatSum(_)
RatSum(vs) == IF vs = <<>> THEN <<0, 1>> ELSE RatAdd(Head(vs), RatSum(Tail(vs)))

\* m is the median (the middle value, or the mean of the two middle values) or
\* the arithmetic mean of the non-empty sequence of numbers vs
IsStatistic(m, vs, strategy) ==
    LET n == Len(vs)
    IN  /\ ~IsNA(m)
        /\ strategy = "median" =>
              \E t \in Ascending(vs) :
                  RatMul(m, <<2, 1>>) = RatAdd(t[(n + 1) \div 2], t[n \div 2 + 1])
        /\ strategy = "mean" => RatMul(m, <<n, 1>>) = RatSum(vs)

\* C3 (as stated): impute_missing with a strategy other than 'median' or 'mean'
\* fails with InvalidArgument instead of returning.
C3_UnknownStrategyRaises ==
    (call.op = "impute_missing" /\ call.strategy \notin {"median", "mean"}) =>
        call.outcome = "raised" /\ call.exc = "InvalidArgument"

\* C7: after impute_missing with 'median' or 'mean', in every numeric column
\* with a non-missing value each missing entry holds the statistic of the
\* column's non-missing values and every other entry is as before; an entirely
\* missing numeric column and every non-numeric column are as before; the call
\* returns.
C7_ImputeFillsStatistic ==
    (call.op = "impute_missing" /\ call.strategy \in {"median", "mean"}) =>
        /\ call.outcome = "returned"
        /\ df.index = prev.index /\ df.columns = prev.columns /\ df.dtype = prev.dtype
        /\ \A c \in Range(prev.columns) :
              LET vs == SelectSeq(prev.data[c], LAMBDA x : x # NaN)
              IN  IF ~IsNumeric(prev, c) \/ vs = <<>>
                  THEN df.data[c] = prev.data[c]
                  ELSE \A i \in 1..NRows(prev) :
                          IF prev.data[c][i] = NaN
                          THEN IsStatistic(df.data[c][i], vs, call.strategy)
                          ELSE df.data[c][i] = prev.data[c][i]

\* a 'mean' call filled a missing bounce_rates entry with a fraction that is
\* not the column's median
C7_Witness ==
    /\ Returned("impute_missing") /\ call.strategy = "mean"
    /\ \E i \in 1..NRows(prev) :
          /\ prev.data["bounce_rates"][i] = NaN
          /\ df.data["bounce_rates"][i] # NaN
          /\ df.data["bounce_rates"][i][2] > 1
          /\ df.data["bounce_rates"][i] # Median(prev.data["bounce_rates"])

\* |skewness| > p/q for n numbers with power sums S1, S2, S3:
\* M2 = n^2 S2 - n S1^2 and M3 = n^3 S3 - 3 n^2 S1 S2 + 2 n S1^3 are n^2 and n^3
\* times the sums of squared and cubed deviations from the mean, and the
\* squared skewness is n^2 (n - 1) M3^2 / ((n - 2)^2 M2^3)
MomentsAbove(n, M2, M3, p, q) ==
    /\ n >= 3
    /\ IF M2 = 0 THEN p < 0
       ELSE q * q * n * n * (n - 1) * M3 * M3 > p * p * (n - 2) * (n - 2) * M2 * M2 * M2

PowerSumsAbove(n, S1, S2, S3, p, q) ==
    MomentsAbove(n, n * n * S2 - n * S1 * S1,
                 n * n * n * S3 - 3 * n * n * S1 * S2 + 2 * n * S1 * S1 * S1, p, q)

IntegersAbove(xs, p, q) ==
    PowerSumsAbove(Len(xs), SumSeq(xs),
                   SumSeq([i \in DOMAIN xs |-> xs[i] * xs[i]]),
                   SumSeq([i \in DOMAIN xs |-> xs[i] * xs[i] * xs[i]]), p, q)

AbsSkewAbove(vs, p, q) == IntegersAbove(Numers(vs), p, q)

\* log(1 + x) of a cell
LogOnePlus(c) == IF c = NaN THEN NaN ELSE IF c[1] = 0 THEN <<0, 1>> ELSE <<c[1], c[2], "log1p">>

\* C10: fix_skew replaces every value x of a numeric column by log(1 + x)
\* exactly when the column's |sample skewness|, over its own values before the
\* call, is strictly above the threshold; a column at the threshold or with an
\* undefined skewness, and every non-numeric (categorical, boolean, string)
\* column, is left as it was.
C10_LogIffSkewAboveThreshold ==
    Returned("fix_skew") =>
        /\ df.index = prev.index /\ df.columns = prev.columns
        /\ \A c \in Range(prev.columns) :
              IF /\ IsNumeric(prev, c)
                 /\ AbsSkewAbove(SelectSeq(prev.data[c], LAMBDA x : x # NaN),
                                 call.threshold[1], call.threshold[2])
              THEN df.data[c] = [i \in 1..NRows(prev) |-> LogOnePlus(prev.data[c][i])]
              ELSE df.data[c] = prev.data[c] /\ df.dtype[c] = prev.dtype[c]

\* after convert_columns, a fix_skew call with threshold 0 transformed
\* bounce_rates, left exit_rates (skewness 0, at the threshold) alone and left
\* the boolean revenue column alone although its 0/1 values are skewed
C10_Witness ==
    /\ Returned("fix_skew") /\ call.threshold = <<0, 1>>
    /\ prev.dtype["revenue"] = "bool" /\ prev.cats["month"] = Months
    /\ df.data["bounce_rates"] # prev.data["bounce_rates"]
    /\ NRows(prev) >= 4 /\ df.data["exit_rates"] = prev.data["exit_rates"]
    /\ AbsSkewAbove([i \in 1..NRows(prev) |-> AsNumber(prev.data["revenue"][i], "bool")], 0, 1)

-----------------------------------------------------------------------------
(* The aggregates on varying region, revenue and weekend columns *)

InitAgg ==
    \E n \in 0..MaxSmallRows :
      \E region \in [1..n -> Range(Regions)], revenue \in [1..n -> BOOLEAN],
         weekend \in [1..n -> BOOLEAN], dt \in FlagDtypes :
        Start(LoadedFrame(AllColumns, DefaultMonth(n), weekend, revenue, region,
                          DefaultBounce(n), DefaultExit(n), dt))

IsQuery(op) == op \in {"weekend_sales_analysis", "regional_revenue_analysis"}

\* the frame as loaded or after convert_columns, then one query
NextAgg ==
    \/ steps = 0 /\ convert_columns
    \/ ~IsQuery(call.op) /\ weekend_sales_analysis
    \/ ~IsQuery(call.op) /\ regional_revenue_analysis

SpecAgg == InitAgg /\ [][NextAgg]_vars

-----------------------------------------------------------------------------
(* The pipeline: normalize -> impute -> filter outliers -> correct skew *)

RawMonths == {"Feb", "June"}

PipelineBounce == {NaN, <<0, 1>>, <<2, 1>>}

PipelineColumnLists == {<<"bounce_rates">>, <<"bounce_rates", "exit_rates">>}

\* the frames the source may deliver: complete, or lacking one of the columns
\* convert_columns assigns
ColumnSets == {AllColumns} \cup
              {SelectSeq(AllColumns, LAMBDA c : c # x) : x \in {"month", "weekend", "revenue"}}

Init ==
    \E n \in 0..MaxStatRows :
      \E b \in [1..n -> PipelineBounce], m \in RawMonths, dt \in FlagDtypes,
         columns \in ColumnSets :
        Start(LoadedFrame(columns, [i \in 1..n |-> IF i = 1 THEN m ELSE "Dec"],
                          DefaultWeekend(n), DefaultRevenue(n), DefaultRegion(n),
                          b, StatExit(n), dt))

\* each stage runs on what the stage before returned; an exception ends the run
Next ==
    \/ call.op = "load" /\ convert_columns
    \/ \E strategy \in Strategies : Returned("convert_columns") /\ impute_missing(strategy)
    \/ \E columns \in PipelineColumnLists :
          Returned("impute_missing") /\ remove_outliers(columns)
    \/ \E threshold \in Thresholds : Returned("remove_outliers") /\ fix_skew(threshold)

Spec == Init /\ [][Next]_vars

-----------------------------------------------------------------------------
(* Properties of convert_columns and of failing stages *)

\* C2 (as stated): convert_columns fails with InvalidCategory whenever the
\* month column holds a value outside Jan..Dec; it never returns with such a
\* value accepted or turned into a missing entry.
C2_InvalidMonthRaises ==
    (/\ call.op = "convert_columns"
     /\ HasColumn(prev, "month")
     /\ \E i \in 1..NRows(prev) :
           prev.data["month"][i] # NaN /\ prev.data["month"][i][1] \notin Range(Months))
    => call.outcome = "raised" /\ call.exc = "InvalidCategory"

\* C4 (as stated): a stage that raises leaves the data set passed in exactly
\* as it was when the call began.
C4_FailureLeavesDatasetUnchanged ==
    call.outcome = "raised" => df = prev

-----------------------------------------------------------------------------
(* Properties of the aggregates *)

\* the region names present in the frame
RegionsPresent(d) == {d.data["region"][i] : i \in 1..NRows(d)}

\* revenue of row i as a number: True counts 1, False 0
RevenueAt(d, i) ==
    IF d.dtype["revenue"] = "bool"
    THEN (IF d.data["revenue"][i][1] THEN <<1, 1>> ELSE <<0, 1>>)
    ELSE d.data["revenue"][i]

\* total revenue of the rows of region r
RegionTotal(d, r) ==
    RatSum(SelectSeq([i \in 1..NRows(d) |-> IF d.data["region"][i] = r THEN RevenueAt(d, i) ELSE NaN],
                     LAMBDA x : x # NaN))

\* one entry per region present, holding the region's total revenue, in
\* non-increasing order of total
OneEntryPerRegionDescending(d, result) ==
    /\ {result[i][1] : i \in DOMAIN result} = RegionsPresent(d)
    /\ Len(result) = Cardinality(RegionsPresent(d))
    /\ \A i \in DOMAIN result : result[i][2] = RegionTotal(d, result[i][1])
    /\ \A i, j \in DOMAIN result : i < j => ~RatLess(result[i][2], result[j][2])

\* entries with equal totals are in group-key (sorted region name) order
TiesInGroupKeyOrder(result) ==
    \A i, j \in DOMAIN result :
        (i < j /\ result[i][2] = result[j][2]) =>
            IndexOf(Regions, result[i][1][1]) < IndexOf(Regions, result[j][1][1])

C6_NoPhantomWeekendKeys ==
    Returned("weekend_sales_analysis") =>
        \A i \in DOMAIN out : \E j \in 1..NRows(df) : df.data["weekend"][j] = out[i][1]

\* after convert_columns, a query over rows that all have the same weekend
\* value returned a single entry
C6_Witness ==
    /\ Returned("weekend_sales_analysis")
    /\ df.dtype["weekend"] = "bool" /\ df.cats["month"] = Months
    /\ NRows(df) >= 2 /\ Len(out) = 1

-----------------------------------------------------------------------------
(* Row count and row order across the pipeline *)

RowPreservingStages == {"convert_columns", "impute_missing", "fix_skew"}

ConvertedColumns == {"month", "weekend", "revenue"}

\* frame b has the rows of frame a: the same labels in the same order, under
\* the same columns
SameRows(a, b) == b.index = a.index /\ b.columns = a.columns

\* column c is in b what it is in a
SameColumn(a, b, c) ==
    b.data[c] = a.data[c] /\ b.dtype[c] = a.dtype[c] /\ b.cats[c] = a.cats[c]

\* the labels of a are labels of b, in b's order
SubIndex(a, b) ==
    /\ \A i \in 1..Len(a) : \E j \in 1..Len(b) : b[j] = a[i]
    /\ \A i, k \in 1..Len(a) : i < k =>
          \E j, l \in 1..Len(b) : j < l /\ b[j] = a[i] /\ b[l] = a[k]

\* C11: in every step of the pipeline, convert_columns, impute_missing and
\* fix_skew leave the rows (their count and their order) as they were, whether
\* they return or raise; only remove_outliers changes the row count, and only
\* downwards, so the count after fix_skew is the count remove_outliers returned
\* and never above the count loaded; convert_columns changes no column other
\* than month, weekend and revenue.
C11_OnlyOutlierFilterChangesRows ==
    [][/\ call'.op \in RowPreservingStages => SameRows(df, df')
       /\ call'.op = "remove_outliers" =>
             /\ NRows(df') <= NRows(df)
             /\ SubIndex(df'.index, df.index)
             /\ df'.columns = df.columns
       /\ NRows(df') # NRows(df) => call'.op = "remove_outliers"
       /\ call'.op = "convert_columns" =>
             \A c \in Range(df.columns) \ ConvertedColumns : SameColumn(df, df', c)]_vars

\* fix_skew returned a frame it transformed, with the rows remove_outliers
\* had left after dropping a row that was not the last one loaded
C11_Witness ==
    /\ Returned("fix_skew")
    /\ df.index = prev.index /\ df.data # prev.data
    /\ NRows(df) >= 3
    /\ df.index[NRows(df)] # NRows(df) - 1

=============================================================================
